---------------------------- MODULE Spec2Model ----------------------------
(***************************************************************************)
(* Model of the MoveOnJoy playlist updater, scripts/moveonjoy_updater.py   *)
(* ("Fast Balanced Mode"): per-channel failover, auto-restore, bulk        *)
(* migration to a fallback main, and the commit/push gate with cooldown.   *)
(*                                                                         *)
(* A subdomain "fl<n>" is the integer n.  A playlist text is a sequence of *)
(* tokens; the token NL is the line break, every other token is a piece of *)
(* a line: a MoveOnJoy URL that FL_RE matches ("url"), a mention of a      *)
(* MoveOnJoy host that FL_RE does not match ("ref", e.g. an http:// URL),  *)
(* or any other text ("txt").  A line is a sequence of non-NL tokens.      *)
(*                                                                         *)
(* Scaling: the program probes fl50..fl3 in batches of 8.  The model keeps *)
(* SUB_MIN = 3 and probes SUB_MIN+MirrorSpan..SUB_MIN in batches of at     *)
(* most BatchCap, so that several batches and in-batch priority both occur *)
(* in a state space TLC can enumerate.                                     *)
(***************************************************************************)
EXTENDS Integers, Sequences, FiniteSets, TLC

(* ------------------------------ bounds --------------------------------- *)
\* Number of mirrors above SUB_MIN in the searched range (program: 47).
MirrorSpan == 2
\* Cap of one probing batch (program: 8).
BatchCap == 2
\* Number of lines of the catalogs the passes are applied to.
MaxLines == 2
\* Number of lines of the catalogs handed to the commit/push gate.
MaxGateLines == 2
\* The clock readings span 0..MaxHours cooldown periods.
MaxHours == 1
\* Number of lines of the catalogs whole runs start from.
RunLines == 3
\* Tokens of a catalog text read and written back.
MaxTextLen == 3
\* Number of pool threads that probe one URL concurrently.
CacheThreads == 3
\* Number of failing lines whose mirror searches one failover pass runs.
MaxFix == 7
\* Calls of _get_next_subdomain made on one rotator.
MaxCalls == 4
\* Width of the subdomain range of the whole-playlist updater (program: 48).
UpdSpan == 2
\* How far beyond END the playlist's current subdomain number can lie.
UpdBeyond == 2

(* --------------------------- program constants ------------------------- *)
SUB_MIN == 3
SUB_MAX == SUB_MIN + MirrorSpan
THREAD_WORKERS == 12
SAMPLE_LIMIT == 3
RETRIES == 2
COOLDOWN_SECONDS == 3600
\* Python's None where a subdomain is expected.
NoSub == -1

Mirrors == SUB_MIN..SUB_MAX
Paths == {"A/index.m3u8", "DISNEY/index.m3u8"}
SPECIAL_CHANNEL_PATHS == {"DISNEY/index.m3u8"}

Min(S) == CHOOSE x \in S : \A y \in S : x <= y
Max(S) == CHOOSE x \in S : \A y \in S : x >= y
MinOf(a, b) == IF a <= b THEN a ELSE b

\* SUB_RANGE = list(range(SUB_MAX, SUB_MIN - 1, -1)): fl<SUB_MAX> first.
SUB_RANGE == [i \in 1..(SUB_MAX - SUB_MIN + 1) |-> SUB_MAX - i + 1]

(* ------------------------------ tokens --------------------------------- *)
Tok(k, s, p) == [k |-> k, sub |-> s, path |-> p]
NL == Tok("nl", 0, "")
Txt == Tok("txt", 0, "#EXTINF")
\* f"https://{sub}.moveonjoy.com/{path}"
Url(s, p) == Tok("url", s, p)
\* text that contains "fl<s>.moveonjoy.com" and that FL_RE does not match
Ref(s) == Tok("ref", s, "")

EndsWithNL(txt) == txt # <<>> /\ txt[Len(txt)].k = "nl"

\* str.splitlines(): break at every NL; a final NL opens no further line.
RECURSIVE Split(_, _, _)
Split(txt, acc, cur) ==
    IF txt = <<>> THEN (IF cur = <<>> THEN acc ELSE Append(acc, cur))
    ELSE IF Head(txt).k = "nl" THEN Split(Tail(txt), Append(acc, cur), <<>>)
    ELSE Split(Tail(txt), acc, Append(cur, Head(txt)))

SplitLines(txt) == Split(txt, <<>>, <<>>)

\* "\n".join(lines)
RECURSIVE JoinLines(_)
JoinLines(ls) ==
    IF ls = <<>> THEN <<>>
    ELSE IF Len(ls) = 1 THEN ls[1]
    ELSE ls[1] \o <<NL>> \o JoinLines(Tail(ls))

\* read_playlist_lines: (lines, txt)
read_playlist_lines(txt) == [lines |-> SplitLines(txt), txt |-> txt]

\* the text write_playlist_lines stores
write_playlist_lines(ls) ==
    LET txt == JoinLines(ls) IN IF EndsWithNL(txt) THEN txt ELSE txt \o <<NL>>

(* --------------------------- line matching ----------------------------- *)
UrlIdx(line) == {i \in DOMAIN line : line[i].k = "url"}
\* FL_RE.search(line) is not None
HasUrl(line) == UrlIdx(line) # {}
\* FL_RE.search(line): the leftmost match
FirstUrl(line) == line[Min(UrlIdx(line))]
\* f"{subdomain}.moveonjoy.com" in line
Mentions(line, sub) ==
    \E i \in DOMAIN line : line[i].k \in {"url", "ref"} /\ line[i].sub = sub

\* re.sub(r"https://fl\d+\.moveonjoy\.com/[^\s]+", new_url, line): every match
ReSub(line, newUrl) ==
    [i \in DOMAIN line |-> IF line[i].k = "url" THEN newUrl ELSE line[i]]

\* indices yielded by enumerate_lines_using_subdomain(lines, subdomain)
LinesUsing(ls, sub) ==
    {i \in DOMAIN ls : Mentions(ls[i], sub) /\ HasUrl(ls[i])}

\* indices yielded by enumerate_all_fl_lines(lines)
AllFlLines(ls) == {i \in DOMAIN ls : HasUrl(ls[i])}

\* the path each of them yields: m.group(2) of the leftmost match
PathOf(line) == FirstUrl(line).path
\* m.group(1) of the leftmost match
SubOf(line) == FirstUrl(line).sub

RECURSIVE FirstSub(_)
FirstSub(ls) ==
    IF ls = <<>> THEN NoSub
    ELSE IF HasUrl(Head(ls)) THEN SubOf(Head(ls))
    ELSE FirstSub(Tail(ls))

extract_current_subdomain_from_lines(ls) == FirstSub(ls)

(* ------------------------------ state ---------------------------------- *)
VARIABLES
    health,      \* the URLs (as <<sub, path>>) whose probe is Playable
    cache,       \* _cache: probed URL -> result, for this run
    pc,          \* control point
    s_path,      \* find_fallback_for_path_parallel: path
    s_excl,      \*   exclude_sub
    s_i,         \*   i, the batch's offset in subs (0-based)
    s_pending,   \*   subdomains of the batch whose probe has not completed
    s_results,   \*   completed probes of the batch: sub -> ok
    s_probed,    \*   every subdomain a probe was submitted for, with its count
    s_ret,       \*   the return value
    file,        \* the catalog file's text on disk
    lastUpdate,  \* LAST_UPDATE_FILE: NoFile, Garbage, or the stored time
    clock,       \* what time.time() returns
    pushes,      \* the clock readings of the last two successful pushes
    g_old,       \* git_commit_and_push_if_changed: old_text
    g_new,       \*   new_lines
    g_cd,        \*   cooldown
    g_git,       \*   how the git commands of this call end
    g_now,       \*   now
    g_last,      \*   last
    g_ret,       \*   the return value
    g_wrote,     \*   whether path.write_text ran
    g_cmds,      \*   the git commands that were run
    lines,       \* main / the passes: the lines read from the catalog
    old_text,    \*   the text read from the catalog
    current_main,\*   the home mirror
    new_lines,   \*   the copy of lines the running pass rewrites
    changed,     \*   the running pass's changed flag
    pending,     \*   fut_map: the line indices whose future is not collected
    fallback,    \*   the fallback main found when the home mirror is dead
    round,       \* number of the pass applied by the pass harness
    moved,       \* per line failed over by an earlier pass: the home it left
    probe,       \* one fast_check_url_m3u call seen request by request
    threads,     \* concurrent fast_check_url_m3u calls for one URL
    flight,      \* the mirror searches of one failover pass and their probes
    rot,         \* rotate.py: the M3URotator object
    upd          \* .github/scripts/moveonjoy_updater.py: one search

searchVars == <<s_path, s_excl, s_i, s_pending, s_results, s_probed, s_ret>>
gateVars == <<g_old, g_new, g_cd, g_git, g_now, g_last, g_ret, g_wrote, g_cmds>>
diskVars == <<file, lastUpdate, clock, pushes>>
runVars == <<lines, old_text, current_main, new_lines, changed, pending,
             fallback>>
histVars == <<round, moved>>

auxVars == <<probe, threads, flight, rot, upd>>

vars == <<health, cache, pc, searchVars, gateVars, diskVars, runVars,
          histVars, auxVars>>

\* the value of a variable no specification in progress uses
Unused == [stage |-> "unused"]

AuxIdle ==
    /\ probe = Unused /\ threads = Unused /\ flight = Unused
    /\ rot = Unused /\ upd = Unused

AllUrls == Mirrors \X Paths

RunIdle ==
    /\ lines = <<>> /\ old_text = <<>> /\ current_main = NoSub
    /\ new_lines = <<>> /\ changed = FALSE /\ pending = {}
    /\ fallback = NoSub /\ round = 0 /\ moved = [i \in {} |-> 0]

(* ------------------------------ probing -------------------------------- *)
\* fast_check_url_m3u(url) seen from a cache c: the cached value, else the probe
Check(c, u) == IF u \in DOMAIN c THEN c[u] ELSE u \in health

\* _cache after fast_check_url_m3u ran for every URL of U
CacheAfter(c, U) ==
    [u \in (DOMAIN c) \cup U |-> IF u \in DOMAIN c THEN c[u] ELSE u \in health]

EmptyCache == [u \in {} |-> FALSE]

(* -------------------- find_fallback_for_path_parallel ------------------ *)
batch_size == MinOf(THREAD_WORKERS, BatchCap)

\* the candidates with the excluded mirror left in
SearchSubsAll(excl) == SUB_RANGE

\* subs = [fl n for n in SUB_RANGE if exclude_sub is None or fl n != exclude_sub]
SearchSubs(excl) == LET Keep(n) == n # excl IN SelectSeq(SUB_RANGE, Keep)

\* batch = subs[i:i+batch_size]
BatchAt(subs, i) == SubSeq(subs, i + 1, MinOf(i + batch_size, Len(subs)))

\* the positive result of lowest priority in the batch
FirstOkLast(batch, res) ==
    LET ok == {j \in DOMAIN batch : res[batch[j]]}
    IN IF ok = {} THEN NoSub ELSE batch[Max(ok)]

\* for sub, ok in zip(batch, results): if ok: return sub
FirstOk(batch, res) ==
    LET ok == {j \in DOMAIN batch : res[batch[j]]}
    IN IF ok = {} THEN NoSub ELSE batch[Min(ok)]

Range(s) == {s[j] : j \in DOMAIN s}

\* the whole call, from cache c: its return value and the cache it leaves
RECURSIVE FindFrom(_, _, _, _)
FindFrom(c, path, subs, i) ==
    IF i >= Len(subs) THEN [ret |-> NoSub, cache |-> c]
    ELSE LET batch == BatchAt(subs, i)
             res == [n \in Range(batch) |-> Check(c, <<n, path>>)]
             c2 == CacheAfter(c, {<<n, path>> : n \in Range(batch)})
             hit == FirstOk(batch, res)
         IN IF hit # NoSub THEN [ret |-> hit, cache |-> c2]
            ELSE FindFrom(c2, path, subs, i + batch_size)

find_fallback_for_path_parallel(c, path, excl) ==
    FindFrom(c, path, SearchSubs(excl), 0)

(* -------------------- git_commit_and_push_if_changed ------------------- *)
\* LAST_UPDATE_FILE does not exist
NoFile == -1
\* LAST_UPDATE_FILE holds text that int() rejects
Garbage == -2

\* the ways the git commands of one call can end
GitOutcomes == {"ok", "add_fails", "nothing_to_commit", "push_fails"}

\* last = 0; if LAST_UPDATE_FILE.exists(): try int(read_text()) except: last = 0
ReadLast(lastFile) == IF lastFile \in {NoFile, Garbage} THEN 0 ELSE lastFile

\* if cooldown and (now - last) < cooldown
CooldownInverted(cooldown, now, last) == cooldown # 0 /\ (now - last) > cooldown

CooldownInclusive(cooldown, now, last) == cooldown # 0 /\ (now - last) <= cooldown

CooldownActive(cooldown, now, last) == cooldown # 0 /\ (now - last) < cooldown

\* new_text + ("\n" if not new_text.endswith("\n") else "")
WrittenText(new_text) ==
    IF EndsWithNL(new_text) THEN new_text ELSE new_text \o <<NL>>

\* LAST_UPDATE_FILE.write_text(str(now)), reached after a successful push
StoredTimeStale(now, lastFile) == lastFile

StoredTime(now, lastFile) == now

\* the catalog file after the git commands ended: written before them and
\* not touched again, however they end
FileRolledBack(written, before, git) == IF git = "ok" THEN written ELSE before

FileAfterGit(written, before, git) == written

\* the record of the last two successful pushes after one more at `now`
Pushed(ps, now) == IF Len(ps) < 2 THEN Append(ps, now) ELSE <<ps[2], now>>

\* the git commands run after the cooldown check, by outcome
GitCmds(git) ==
    {"config", "add"}
        \cup (IF git # "add_fails" THEN {"commit"} ELSE {})
        \cup (IF git \in {"ok", "push_fails"} THEN {"push"} ELSE {})

\* the whole call: return value, file and LAST_UPDATE_FILE afterwards, and
\* the git commands run (none: the call returned before the first of them)
GateResult(oldText, newLines, cooldown, now, fileBefore, lastFile, git) ==
    LET new_text == JoinLines(newLines)
        last == ReadLast(lastFile)
    IN IF new_text = oldText
       THEN [ret |-> FALSE, file |-> fileBefore, lastUpdate |-> lastFile,
             wrote |-> FALSE, cmds |-> {}, last |-> 0, pushed |-> FALSE]
       ELSE IF CooldownActive(cooldown, now, last)
       THEN [ret |-> TRUE, file |-> WrittenText(new_text),
             lastUpdate |-> lastFile, wrote |-> TRUE, cmds |-> {},
             last |-> last, pushed |-> FALSE]
       ELSE [ret |-> TRUE,
             file |-> FileAfterGit(WrittenText(new_text), fileBefore, git),
             lastUpdate |-> IF git = "ok" THEN StoredTime(now, lastFile)
                            ELSE lastFile,
             wrote |-> TRUE, cmds |-> GitCmds(git), last |-> last,
             pushed |-> (git = "ok")]

GateIdle ==
    /\ g_old = <<>> /\ g_new = <<>> /\ g_cd = 0 /\ g_git = "none"
    /\ g_now = 0 /\ g_last = 0 /\ g_ret = FALSE /\ g_wrote = FALSE
    /\ g_cmds = {}

\* no call is in progress: the call's variables are back to their idle values
GateReset ==
    /\ g_old' = <<>> /\ g_new' = <<>> /\ g_cd' = 0 /\ g_git' = "none"
    /\ g_now' = 0 /\ g_last' = 0 /\ g_ret' = FALSE /\ g_wrote' = FALSE
    /\ g_cmds' = {}

\* the call with the given arguments, reading the clock as now
GateCall(oldText, newLines, cooldown, now, git) ==
    LET r == GateResult(oldText, newLines, cooldown, now, file,
                        lastUpdate, git)
    IN /\ g_old' = oldText
       /\ g_new' = newLines
       /\ g_cd' = cooldown
       /\ g_git' = (IF r.cmds = {} THEN "none" ELSE git)
       /\ g_now' = now
       /\ g_last' = r.last
       /\ g_ret' = r.ret
       /\ g_wrote' = r.wrote
       /\ g_cmds' = r.cmds
       /\ file' = r.file
       /\ lastUpdate' = r.lastUpdate
       /\ clock' = now
       /\ pushes' = (IF r.pushed THEN Pushed(pushes, now) ELSE pushes)


(* One call, step by step: the probes of a batch run in their own threads  *)
(* and complete in any order; the results are read in submission order.    *)
SearchInit ==
    /\ health \in SUBSET AllUrls
    /\ cache = EmptyCache
    /\ s_path \in Paths
    /\ s_excl \in Mirrors \cup {NoSub, SUB_MAX + 1}
    /\ s_i = 0
    /\ s_pending = {}
    /\ s_results = [n \in {} |-> FALSE]
    /\ s_probed = [n \in {} |-> 0]
    /\ s_ret = NoSub
    /\ pc = "s_loop"
    /\ GateIdle
    /\ AuxIdle
    /\ RunIdle
    /\ file = <<>> /\ lastUpdate = NoFile /\ clock = 0 /\ pushes = <<>>

\* for i in range(0, len(subs), batch_size): submit the batch
SearchSubmit ==
    /\ pc = "s_loop"
    /\ s_i < Len(SearchSubs(s_excl))
    /\ LET batch == BatchAt(SearchSubs(s_excl), s_i)
       IN /\ s_pending' = Range(batch)
          /\ s_probed' = [n \in (DOMAIN s_probed) \cup Range(batch) |->
                            IF n \in DOMAIN s_probed
                            THEN s_probed[n] + (IF n \in Range(batch) THEN 1 ELSE 0)
                            ELSE 1]
    /\ s_results' = [n \in {} |-> FALSE]
    /\ pc' = "s_batch"
    /\ UNCHANGED <<health, cache, s_path, s_excl, s_i, s_ret,
                   gateVars, diskVars, runVars, histVars, auxVars>>

\* one thread's fast_check_url_m3u(url) completes: its result and the cache
SearchProbeEffect(n) ==
    /\ pc = "s_batch"
    /\ n \in s_pending
    /\ s_pending' = s_pending \ {n}
    /\ s_results' = (n :> Check(cache, <<n, s_path>>)) @@ s_results
    /\ cache' = CacheAfter(cache, {<<n, s_path>>})
    /\ UNCHANGED <<health, pc, s_path, s_excl, s_i, s_probed, s_ret,
                   gateVars, diskVars, runVars, histVars>>

SearchProbeDone(n) == SearchProbeEffect(n) /\ UNCHANGED auxVars

\* results = [f.result() for f in queries]; first positive in batch order
SearchCollect ==
    /\ pc = "s_batch"
    /\ s_pending = {}
    /\ LET hit == FirstOk(BatchAt(SearchSubs(s_excl), s_i), s_results)
       IN IF hit # NoSub
          THEN /\ s_ret' = hit
               /\ pc' = "s_done"
               /\ UNCHANGED s_i
          ELSE /\ s_i' = s_i + batch_size
               /\ pc' = "s_loop"
               /\ UNCHANGED s_ret
    /\ UNCHANGED <<health, cache, s_path, s_excl, s_pending, s_results, s_probed,
                   gateVars, diskVars, runVars, histVars, auxVars>>

\* the range is exhausted: return None
SearchExhausted ==
    /\ pc = "s_loop"
    /\ s_i >= Len(SearchSubs(s_excl))
    /\ s_ret' = NoSub
    /\ pc' = "s_done"
    /\ UNCHANGED <<health, cache, s_path, s_excl, s_i, s_pending, s_results,
                   s_probed, gateVars, diskVars, runVars, histVars, auxVars>>

SearchNext ==
    \/ SearchSubmit
    \/ \E n \in Mirrors : SearchProbeDone(n)
    \/ SearchCollect
    \/ SearchExhausted

SpecSearch == SearchInit /\ [][SearchNext]_vars

(* ------------- the gate on its own: any arguments, any clock ----------- *)
\* sequences of at most n elements of S
SeqsUpTo(S, n) == UNION {[1..k -> S] : k \in 0..n}

GateLineSet == {<<Url(SUB_MIN, "A/index.m3u8")>>, <<Url(SUB_MAX, "A/index.m3u8")>>}
GateLines == SeqsUpTo(GateLineSet, MaxGateLines)
GateTexts == {JoinLines(ls) : ls \in GateLines}
                 \cup {JoinLines(ls) \o <<NL>> : ls \in GateLines}

\* clock readings around the cooldown boundary
Times ==
    {h * COOLDOWN_SECONDS + d :
        h \in 0..MaxHours, d \in {0, 10, COOLDOWN_SECONDS - 1}}

SearchIdle ==
    /\ s_path = "" /\ s_excl = NoSub /\ s_i = 0 /\ s_pending = {}
    /\ s_results = [n \in {} |-> FALSE] /\ s_probed = [n \in {} |-> 0]
    /\ s_ret = NoSub

GateInit ==
    /\ health = {}
    /\ cache = EmptyCache
    /\ SearchIdle
    /\ GateIdle
    /\ AuxIdle
    /\ RunIdle
    /\ file \in GateTexts
    /\ lastUpdate \in {NoFile, Garbage} \cup Times
    /\ clock \in Times
    /\ pushes = <<>>
    /\ pc = "g_idle"

\* lines, old_text = read_playlist_lines(p) ...
\* git_commit_and_push_if_changed(p, old_text, new_lines, cooldown)
GateInvoke ==
    /\ pc = "g_idle"
    /\ \E newLines \in GateLines, cooldown \in {0, COOLDOWN_SECONDS},
          git \in GitOutcomes :
          GateCall(file, newLines, cooldown, clock, git)
    /\ pc' = "g_done"
    /\ UNCHANGED <<health, cache, searchVars, runVars, histVars, auxVars>>

\* the next invocation, at any later or earlier clock reading
GateAgain ==
    /\ pc = "g_done"
    /\ pc' = "g_idle"
    /\ clock' \in Times
    /\ GateReset
    /\ UNCHANGED <<health, cache, searchVars, file, lastUpdate, pushes,
                   runVars, histVars, auxVars>>

GateNext == GateInvoke \/ GateAgain

SpecGate == GateInit /\ [][GateNext]_vars

(* ----------------------- subdomain liveness, sampled ------------------- *)
\* the first `limit` lines yielded by enumerate_lines_using_subdomain
SampleOf(ls, sub, limit) ==
    {i \in LinesUsing(ls, sub) :
        Cardinality({j \in LinesUsing(ls, sub) : j < i}) < limit}

\* url = m.group(0): the leftmost match of the line, as <<sub, path>>
UrlOf(line) == <<SubOf(line), PathOf(line)>>

\* subdomain_alive_any_fast(lines, subdomain, limit) from cache c: every
\* sampled URL is probed (the executor is joined), any success makes it alive
subdomain_alive_any_fast(c, ls, sub, limit) ==
    LET urls == {UrlOf(ls[i]) : i \in SampleOf(ls, sub, limit)}
    IN [alive |-> \E u \in urls : Check(c, u), cache |-> CacheAfter(c, urls)]

\* find_any_fallback_main_fast(lines, exclude_sub) from cache c
RECURSIVE FallbackMainFrom(_, _, _, _)
FallbackMainFrom(c, ls, excl, k) ==
    IF k > Len(SUB_RANGE) THEN [ret |-> NoSub, cache |-> c]
    ELSE IF SUB_RANGE[k] = excl THEN FallbackMainFrom(c, ls, excl, k + 1)
    ELSE LET r == subdomain_alive_any_fast(c, ls, SUB_RANGE[k], SAMPLE_LIMIT)
         IN IF r.alive THEN [ret |-> SUB_RANGE[k], cache |-> r.cache]
            ELSE FallbackMainFrom(r.cache, ls, excl, k + 1)

find_any_fallback_main_fast(c, ls, excl) == FallbackMainFrom(c, ls, excl, 1)

(* ---------------------- auto_restore_to_main_fast ---------------------- *)
\* the lines a restore probe is submitted for: sub != current_main
RestoreTargetsOnMain(ls, main) == {i \in AllFlLines(ls) : SubOf(ls[i]) = main}

RestoreTargets(ls, main) == {i \in AllFlLines(ls) : SubOf(ls[i]) # main}

\* new_lines = list(lines); one future per line that is not on main
RestoreSubmit ==
    /\ pc = "r_call"
    /\ new_lines' = lines
    /\ changed' = FALSE
    /\ pending' = RestoreTargets(lines, current_main)
    /\ pc' = "r_wait"
    /\ UNCHANGED <<health, cache, searchVars, gateVars, diskVars, lines,
                   old_text, current_main, fallback, histVars, auxVars>>

\* for fut in as_completed(fut_map): restore the line if main serves its path
RestoreCollect(idx) ==
    /\ pc = "r_wait"
    /\ idx \in pending
    /\ LET main_test == <<current_main, PathOf(lines[idx])>>
           ok == Check(cache, main_test)
       IN /\ cache' = CacheAfter(cache, {main_test})
          /\ IF ok
             THEN /\ new_lines' = [new_lines EXCEPT ![idx] =
                        ReSub(@, Url(current_main, PathOf(lines[idx])))]
                  /\ changed' = TRUE
             ELSE UNCHANGED <<new_lines, changed>>
    /\ pending' = pending \ {idx}
    /\ UNCHANGED <<health, pc, searchVars, gateVars, diskVars, lines,
                   old_text, current_main, fallback, histVars, auxVars>>

\* return new_lines, changed
RestoreReturn ==
    /\ pc = "r_wait"
    /\ pending = {}
    /\ pc' = "r_ret"
    /\ UNCHANGED <<health, cache, searchVars, gateVars, diskVars, runVars,
                   histVars, auxVars>>

(* ---------------------- per_channel_failover_fast ---------------------- *)
\* only the first of the failing lines
ToFixFirst(c, ls, main) ==
    LET F == {i \in LinesUsing(ls, main) : ~Check(c, <<main, PathOf(ls[i])>>)}
    IN {i \in F : \A j \in F : i <= j}

\* to_fix: the lines using main whose probe at main fails
ToFix(c, ls, main) ==
    {i \in LinesUsing(ls, main) : ~Check(c, <<main, PathOf(ls[i])>>)}

\* the probes of the sequential check of main_entries
MainTests(ls, main) == {<<main, PathOf(ls[i])>> : i \in LinesUsing(ls, main)}

\* if fallback:
FallbackAlways(ret) == TRUE

FallbackFound(ret) == ret # NoSub

\* the line after a switch to the found fallback

\* a switch that ignores the mirror found and writes the lowest mirror
SwitchToLowest(line, fb, path) == ReSub(line, Url(SUB_MIN, path))

Switch(line, fb, path) == ReSub(line, Url(fb, path))

\* main_entries, the sequential probes, to_fix; both early returns
FailoverCheck ==
    /\ pc = "f_call"
    /\ new_lines' = lines
    /\ changed' = FALSE
    /\ cache' = CacheAfter(cache, MainTests(lines, current_main))
    /\ pending' = ToFix(cache, lines, current_main)
    /\ pc' = IF ToFix(cache, lines, current_main) = {} THEN "f_ret" ELSE "f_wait"
    /\ UNCHANGED <<health, searchVars, gateVars, diskVars, lines, old_text,
                   current_main, fallback, histVars, auxVars>>

\* for fut in as_completed(fut_map): switch the line to the fallback found
FailoverCollect(idx) ==
    /\ pc = "f_wait"
    /\ idx \in pending
    /\ LET path == PathOf(lines[idx])
           r == find_fallback_for_path_parallel(cache, path, current_main)
       IN /\ cache' = r.cache
          /\ IF FallbackFound(r.ret)
             THEN /\ new_lines' = [new_lines EXCEPT ![idx] =
                                       Switch(@, r.ret, path)]
                  /\ changed' = TRUE
                  /\ moved' = IF SubOf(lines[idx]) = current_main
                              THEN (idx :> current_main) @@ moved
                              ELSE moved
             ELSE UNCHANGED <<new_lines, changed, moved>>
    /\ pending' = pending \ {idx}
    /\ UNCHANGED <<health, pc, searchVars, gateVars, diskVars, lines,
                   old_text, current_main, fallback, round, auxVars>>

\* return new_lines, changed
FailoverReturn ==
    /\ pc = "f_wait"
    /\ pending = {}
    /\ pc' = "f_ret"
    /\ UNCHANGED <<health, cache, searchVars, gateVars, diskVars, runVars,
                   histVars, auxVars>>

(* -------- the passes on their own: any catalog, any probe results ------ *)
\* lines that hold more than a single URL: two URLs on one line, and a
\* mention of a host before the URL
MixedLineSet ==
    {<<Url(SUB_MIN, "A/index.m3u8"), Url(SUB_MAX, "DISNEY/index.m3u8")>>,
     <<Ref(SUB_MAX), Url(SUB_MIN, "A/index.m3u8")>>}

CatLineSet ==
    {<<Txt>>} \cup {<<Url(n, p)>> : n \in Mirrors, p \in Paths}
        \cup MixedLineSet

PassInit ==
    /\ health \in SUBSET AllUrls
    /\ cache = EmptyCache
    /\ SearchIdle
    /\ GateIdle
    /\ AuxIdle
    /\ file = <<>> /\ lastUpdate = NoFile /\ clock = 0 /\ pushes = <<>>
    /\ lines \in [1..MaxLines -> CatLineSet]
    /\ extract_current_subdomain_from_lines(lines) # NoSub
    /\ current_main = extract_current_subdomain_from_lines(lines)
    /\ old_text = <<>> /\ new_lines = <<>> /\ changed = FALSE
    /\ pending = {} /\ fallback = NoSub
    /\ round = 1 /\ moved = [i \in {} |-> 0]
    /\ pc \in {"r_call", "f_call"}

\* the failover pass applied again to its own output, in a fresh run, with
\* the home mirror kept or detected again from the first resource line
PassAgain ==
    /\ pc = "f_ret"
    /\ round = 1
    /\ round' = 2
    /\ lines' = new_lines
    /\ current_main' \in {current_main,
                          extract_current_subdomain_from_lines(new_lines)}
    /\ cache' = EmptyCache
    /\ pc' = "f_call"
    /\ UNCHANGED <<health, searchVars, gateVars, diskVars, old_text,
                   new_lines, changed, pending, fallback, moved, auxVars>>

PassNext ==
    \/ RestoreSubmit
    \/ \E idx \in DOMAIN lines : RestoreCollect(idx)
    \/ RestoreReturn
    \/ FailoverCheck
    \/ \E idx \in DOMAIN lines : FailoverCollect(idx)
    \/ FailoverReturn
    \/ PassAgain

SpecPass == PassInit /\ [][PassNext]_vars

(* The passes on catalogs that also hold a mirror id outside the range:  *)
(* FL_RE matches fl<any digits>, and nothing compares a parsed id with    *)
(* SUB_MIN or SUB_MAX.                                                     *)
OutSub == SUB_MAX + 1

RangeLineSet ==
    {<<Txt>>} \cup {<<Url(n, "A/index.m3u8")>> : n \in Mirrors \cup {OutSub}}

RangeInit ==
    /\ health \in SUBSET ((Mirrors \cup {OutSub}) \X {"A/index.m3u8"})
    /\ cache = EmptyCache
    /\ SearchIdle
    /\ GateIdle
    /\ AuxIdle
    /\ file = <<>> /\ lastUpdate = NoFile /\ clock = 0 /\ pushes = <<>>
    /\ lines \in [1..MaxLines -> RangeLineSet]
    /\ extract_current_subdomain_from_lines(lines) # NoSub
    /\ current_main = extract_current_subdomain_from_lines(lines)
    /\ old_text = <<>> /\ new_lines = <<>> /\ changed = FALSE
    /\ pending = {} /\ fallback = NoSub
    /\ round = 1 /\ moved = [i \in {} |-> 0]
    /\ pc \in {"r_call", "f_call"}

SpecRange == RangeInit /\ [][PassNext]_vars

(* Reading a catalog text and writing its lines back, on any text.        *)
TextToks == {NL, Txt, Url(SUB_MIN, "A/index.m3u8")}
TextTexts == SeqsUpTo(TextToks, MaxTextLen)

TextInit ==
    /\ health = {}
    /\ cache = EmptyCache
    /\ SearchIdle
    /\ GateIdle
    /\ AuxIdle
    /\ RunIdle
    /\ file \in TextTexts
    /\ lastUpdate = NoFile /\ clock = 0 /\ pushes = <<>>
    /\ pc = "t_read"

\* lines, txt = read_playlist_lines(path)
TextRead ==
    /\ pc = "t_read"
    /\ lines' = read_playlist_lines(file).lines
    /\ old_text' = read_playlist_lines(file).txt
    /\ pc' = "t_loaded"
    /\ UNCHANGED <<health, cache, searchVars, gateVars, diskVars,
                   current_main, new_lines, changed, pending, fallback,
                   histVars, auxVars>>

\* write_playlist_lines(path, lines) with the lines as they were read
TextWrite ==
    /\ pc = "t_loaded"
    /\ file' = write_playlist_lines(lines)
    /\ pc' = "t_written"
    /\ UNCHANGED <<health, cache, searchVars, gateVars, lastUpdate, clock,
                   pushes, runVars, histVars, auxVars>>

TextNext == TextRead \/ TextWrite

SpecText == TextInit /\ [][TextNext]_vars

(* ------------- fast_check_url_m3u, request by request ------------------ *)
\* how one attempt of a request ends: requests.RequestException (network
\* error, timeout), a response with status outside 200..399, or one inside
AttemptOutcomes == {"exc", "bad", "ok"}

\* the server as one probe sees it: the outcome of each attempt of the HEAD
\* and GET of the URL and of its first segment, the Content-Type of the HEAD
\* response and whether the playlist body names a .ts or .m3u8 line
Servers ==
    [head : [1..RETRIES -> AttemptOutcomes], ctype : {"mpegurl", "other"},
     get : [1..RETRIES -> AttemptOutcomes], body : {"seg", "noseg"},
     shead : [1..RETRIES -> AttemptOutcomes],
     sget : [1..RETRIES -> AttemptOutcomes]]

\* do_head / do_get: for attempt in 1..RETRIES: the response of the first
\* attempt that does not raise is returned whatever its status; None after
\* RETRIES attempts that raised
RECURSIVE do_request(_, _)
do_request(outs, attempt) ==
    IF outs[attempt] # "exc" THEN [resp |-> outs[attempt], tries |-> attempt]
    ELSE IF attempt < RETRIES THEN do_request(outs, attempt + 1)
    ELSE [resp |-> "none", tries |-> attempt]

\* r and 200 <= r.status_code < 400
RespOk(r) == r.resp = "ok"

ProbeUrl == <<SUB_MIN, "A/index.m3u8">>

ProbeInit ==
    /\ health = {}
    /\ cache = EmptyCache
    /\ SearchIdle
    /\ GateIdle
    /\ RunIdle
    /\ file = <<>> /\ lastUpdate = NoFile /\ clock = 0 /\ pushes = <<>>
    /\ probe \in [srv : Servers, req : {"head"}, last : {"none"},
                  tries : {0}, result : {FALSE}]
    /\ threads = Unused /\ flight = Unused /\ rot = Unused /\ upd = Unused
    /\ pc = "p_head"

\* the probe returns ok and stores it: _cache[url] = ok
ProbeReturn(req, r, ok) ==
    /\ probe' = [probe EXCEPT !.req = req, !.last = r.resp, !.tries = r.tries,
                              !.result = ok]
    /\ cache' = (ProbeUrl :> ok) @@ cache
    /\ pc' = "p_done"

\* the probe goes on to its next request
ProbeGoOn(req, r, next) ==
    /\ probe' = [probe EXCEPT !.req = req, !.last = r.resp, !.tries = r.tries]
    /\ pc' = next
    /\ UNCHANGED cache

\* r = do_head(url): True on a mpegurl Content-Type, the GET when the type
\* is unclear, False when there is no response or its status is a failure
ProbeHead ==
    /\ pc = "p_head"
    /\ LET r == do_request(probe.srv.head, 1)
       IN IF ~RespOk(r) THEN ProbeReturn("head", r, FALSE)
          ELSE IF probe.srv.ctype = "mpegurl" THEN ProbeReturn("head", r, TRUE)
          ELSE ProbeGoOn("head", r, "p_get")
    /\ UNCHANGED <<health, searchVars, gateVars, diskVars, runVars, histVars,
                   threads, flight, rot, upd>>

\* g = do_get(url): look for the first line ending in .ts or .m3u8
ProbeGet ==
    /\ pc = "p_get"
    /\ LET g == do_request(probe.srv.get, 1)
       IN IF RespOk(g) /\ probe.srv.body = "seg"
          THEN ProbeGoOn("get", g, "p_seg")
          ELSE ProbeReturn("get", g, FALSE)
    /\ UNCHANGED <<health, searchVars, gateVars, diskVars, runVars, histVars,
                   threads, flight, rot, upd>>

\* seg_r = do_head(seg_url) or do_get(seg_url): a Response is falsy unless
\* its status is below 400, so the GET follows a failed HEAD as well
ProbeSeg ==
    /\ pc = "p_seg"
    /\ LET h == do_request(probe.srv.shead, 1)
           g == do_request(probe.srv.sget, 1)
       IN IF RespOk(h) THEN ProbeReturn("shead", h, TRUE)
          ELSE ProbeReturn("sget", g, RespOk(g))
    /\ UNCHANGED <<health, searchVars, gateVars, diskVars, runVars, histVars,
                   threads, flight, rot, upd>>

ProbeNext == ProbeHead \/ ProbeGet \/ ProbeSeg

SpecProbe == ProbeInit /\ [][ProbeNext]_vars

(* ----- _cache under concurrent fast_check_url_m3u calls for one URL ----- *)
(* The pools of the passes run fast_check_url_m3u in several threads; two  *)
(* lines with the same path give two futures for the same URL.  A call is  *)
(* the test `url in _cache`, then the requests, then `_cache[url] = ok`;   *)
(* nothing makes the three one step.                                        *)
CacheInit ==
    /\ health \in SUBSET {ProbeUrl}
    /\ cache = EmptyCache
    /\ SearchIdle
    /\ GateIdle
    /\ RunIdle
    /\ file = <<>> /\ lastUpdate = NoFile /\ clock = 0 /\ pushes = <<>>
    /\ threads = [st |-> [t \in 1..CacheThreads |-> "idle"],
                  res |-> [t \in 1..CacheThreads |-> FALSE],
                  overwrote |-> FALSE]
    /\ probe = Unused /\ flight = Unused /\ rot = Unused /\ upd = Unused
    /\ pc = "c_run"

\* if url in _cache: return _cache[url]; else the requests are started
CacheCall(t) ==
    /\ pc = "c_run"
    /\ threads.st[t] = "idle"
    /\ IF ProbeUrl \in DOMAIN cache
       THEN threads' = [threads EXCEPT !.st[t] = "done",
                                       !.res[t] = cache[ProbeUrl]]
       ELSE threads' = [threads EXCEPT !.st[t] = "probing"]
    /\ UNCHANGED <<health, cache, pc, searchVars, gateVars, diskVars, runVars,
                   histVars, probe, flight, rot, upd>>

\* the requests end with what the mirror serves now: _cache[url] = ok; return
CacheStore(t) ==
    /\ pc = "c_run"
    /\ threads.st[t] = "probing"
    /\ LET ok == ProbeUrl \in health
       IN /\ cache' = (ProbeUrl :> ok) @@ cache
          /\ threads' = [threads EXCEPT
                 !.st[t] = "done",
                 !.res[t] = ok,
                 !.overwrote = @ \/ (ProbeUrl \in DOMAIN cache
                                        /\ cache[ProbeUrl] # ok)]
    /\ UNCHANGED <<health, pc, searchVars, gateVars, diskVars, runVars,
                   histVars, probe, flight, rot, upd>>

\* the mirror starts or stops serving the URL while the run goes on
HealthChange ==
    /\ pc = "c_run"
    /\ health' = IF ProbeUrl \in health THEN {} ELSE {ProbeUrl}
    /\ UNCHANGED <<cache, pc, searchVars, gateVars, diskVars, runVars,
                   histVars, auxVars>>

CacheNext ==
    \/ \E t \in 1..CacheThreads : CacheCall(t)
    \/ \E t \in 1..CacheThreads : CacheStore(t)
    \/ HealthChange

SpecCache == CacheInit /\ [][CacheNext]_vars

(* ------- the probes in flight while the failover pass searches -------- *)
(* per_channel_failover_fast hands one find_fallback_for_path_parallel per *)
(* failing line to a pool of THREAD_WORKERS threads; every search opens a  *)
(* pool of its own, of len(batch) threads, for each of its batches.        *)
FlightSubs == SearchSubs(SUB_MIN)

FlightInit ==
    /\ health = {}
    /\ cache = EmptyCache
    /\ SearchIdle
    /\ GateIdle
    /\ RunIdle
    /\ file = <<>> /\ lastUpdate = NoFile /\ clock = 0 /\ pushes = <<>>
    /\ flight = [s \in 1..MaxFix |-> [st |-> "queued", i |-> 0, inflight |-> 0]]
    /\ probe = Unused /\ threads = Unused /\ rot = Unused /\ upd = Unused
    /\ pc = "fl_run"

FlightFrame ==
    UNCHANGED <<health, cache, pc, searchVars, gateVars, diskVars, runVars,
                histVars, probe, threads, rot, upd>>

\* a thread of the pass's pool takes the search: at most THREAD_WORKERS run
FlightStart(s) ==
    /\ pc = "fl_run"
    /\ flight[s].st = "queued"
    /\ Cardinality({r \in DOMAIN flight : flight[r].st \in {"loop", "wait"}})
           < THREAD_WORKERS
    /\ flight' = [flight EXCEPT ![s].st = "loop"]
    /\ FlightFrame

\* with ThreadPoolExecutor(max_workers=len(batch)): submit every probe
FlightSubmit(s) ==
    /\ pc = "fl_run"
    /\ flight[s].st = "loop"
    /\ flight[s].i < Len(FlightSubs)
    /\ flight' = [flight EXCEPT
                     ![s].st = "wait",
                     ![s].inflight = Len(BatchAt(FlightSubs, flight[s].i))]
    /\ FlightFrame

\* one probe of the batch ends
FlightProbeEnd(s) ==
    /\ pc = "fl_run"
    /\ flight[s].st = "wait"
    /\ flight[s].inflight > 0
    /\ flight' = [flight EXCEPT ![s].inflight = @ - 1]
    /\ FlightFrame

\* the batch is complete: return the first positive, else the next batch
FlightCollect(s) ==
    /\ pc = "fl_run"
    /\ flight[s].st = "wait"
    /\ flight[s].inflight = 0
    /\ \E hit \in BOOLEAN :
          flight' = [flight EXCEPT
                        ![s].st = IF hit THEN "done" ELSE "loop",
                        ![s].i = IF hit THEN @ ELSE @ + batch_size]
    /\ FlightFrame

\* the candidates are exhausted: return None
FlightExhausted(s) ==
    /\ pc = "fl_run"
    /\ flight[s].st = "loop"
    /\ flight[s].i >= Len(FlightSubs)
    /\ flight' = [flight EXCEPT ![s].st = "done"]
    /\ FlightFrame

FlightNext ==
    \E s \in 1..MaxFix :
        \/ FlightStart(s)
        \/ FlightSubmit(s)
        \/ FlightProbeEnd(s)
        \/ FlightCollect(s)
        \/ FlightExhausted(s)

SpecFlight == FlightInit /\ [][FlightNext]_vars

(* ------------------- rotate.py: M3URotator ----------------------------- *)
RotSubs == {"fl1", "fl2", "fl3"}
RotModes == {"sequential", "random", "smart"}

\* the lists of online subdomains a scan can supply: no subdomain twice
RotLists ==
    {l \in UNION {[1..n -> RotSubs] : n \in 0..Cardinality(RotSubs)} :
        \A i, j \in DOMAIN l : l[i] = l[j] => i = j}

\* the list handed to the constructor, kept as it is
OnlineAsGiven(given, force_fl1) == given

\* __init__: ["fl1"] when forced or nothing is online, fl1 put first when missing
OnlineAtInit(given, force_fl1) ==
    IF force_fl1 THEN <<"fl1">>
    ELSE IF given = <<>> THEN <<"fl1">>
    ELSE IF "fl1" \notin Range(given) THEN <<"fl1">> \o given
    ELSE given

\* len([sd for sd in online_subdomains if sd != "fl1"]) == 0
FallbackMode(online) == \A i \in DOMAIN online : online[i] = "fl1"

\* M3URotator(m3u_path, online_subdomains, force_fl1) after construction
M3URotator(given, force_fl1) ==
    LET online == OnlineAtInit(given, force_fl1)
    IN [force_fl1 |-> force_fl1,
        online_subdomains |-> online,
        fallback_mode |-> FallbackMode(online),
        rotation_index |-> 0,
        fallback_count |-> 0,
        forced_fl1_count |-> 0,
        mode |-> "none",
        ret |-> "none",
        seq |-> <<>>]

\* the sequential step that returns whatever the index points at
SequentialNoSkip(online, idx) ==
    [sub |-> online[idx + 1], idx |-> (idx + 1) % Len(online)]

\* mode == 'sequential': take the entry at rotation_index and advance; when it
\* is fl1 and there are other entries, take the next one and advance again
SequentialStep(online, idx) ==
    LET first == online[idx + 1]
        idx1 == (idx + 1) % Len(online)
    IN IF first = "fl1" /\ Len(online) > 1
       THEN [sub |-> online[idx1 + 1], idx |-> (idx1 + 1) % Len(online)]
       ELSE [sub |-> first, idx |-> idx1]

\* weighted_list: fl1 once, every other subdomain three times
RECURSIVE WeightedList(_)
WeightedList(online) ==
    IF online = <<>> THEN <<>>
    ELSE (IF Head(online) = "fl1" THEN <<Head(online)>>
          ELSE <<Head(online), Head(online), Head(online)>>)
         \o WeightedList(Tail(online))

RotInit ==
    /\ health = {}
    /\ cache = EmptyCache
    /\ SearchIdle
    /\ GateIdle
    /\ RunIdle
    /\ file = <<>> /\ lastUpdate = NoFile /\ clock = 0 /\ pushes = <<>>
    /\ rot \in {M3URotator(l, f) : l \in RotLists, f \in BOOLEAN}
    /\ probe = Unused /\ threads = Unused /\ flight = Unused /\ upd = Unused
    /\ pc = "rot_ready"

RotFrame ==
    UNCHANGED <<health, cache, pc, searchVars, gateVars, diskVars, runVars,
                histVars, probe, threads, flight, upd>>

RotCalls == rot.fallback_count + rot.forced_fl1_count + Len(rot.seq)

\* if self.force_fl1: count and return "fl1"
GetNextForced(mode) ==
    /\ pc = "rot_ready"
    /\ RotCalls < MaxCalls
    /\ rot.force_fl1
    /\ rot' = [rot EXCEPT !.forced_fl1_count = @ + 1, !.mode = mode,
                          !.ret = "fl1"]
    /\ RotFrame

\* if self.fallback_mode or len(self.online_subdomains) == 1: return "fl1"
GetNextFallback(mode) ==
    /\ pc = "rot_ready"
    /\ RotCalls < MaxCalls
    /\ ~rot.force_fl1
    /\ rot.fallback_mode \/ Len(rot.online_subdomains) = 1
    /\ rot' = [rot EXCEPT !.fallback_count = @ + 1, !.mode = mode,
                          !.ret = "fl1"]
    /\ RotFrame

\* mode == 'sequential'
GetNextSequential ==
    /\ pc = "rot_ready"
    /\ RotCalls < MaxCalls
    /\ ~rot.force_fl1
    /\ ~(rot.fallback_mode \/ Len(rot.online_subdomains) = 1)
    /\ LET r == SequentialStep(rot.online_subdomains, rot.rotation_index)
       IN rot' = [rot EXCEPT !.rotation_index = r.idx, !.mode = "sequential",
                             !.ret = r.sub, !.seq = Append(@, r.sub)]
    /\ RotFrame

\* mode == 'random': random.choice(self.online_subdomains)
GetNextRandom ==
    /\ pc = "rot_ready"
    /\ ~rot.force_fl1
    /\ ~(rot.fallback_mode \/ Len(rot.online_subdomains) = 1)
    /\ \E k \in DOMAIN rot.online_subdomains :
          rot' = [rot EXCEPT !.mode = "random",
                             !.ret = rot.online_subdomains[k]]
    /\ RotFrame

\* any other mode: random.choice(weighted_list)
GetNextSmart ==
    /\ pc = "rot_ready"
    /\ ~rot.force_fl1
    /\ ~(rot.fallback_mode \/ Len(rot.online_subdomains) = 1)
    /\ LET weighted_list == WeightedList(rot.online_subdomains)
       IN \E k \in DOMAIN weighted_list :
             rot' = [rot EXCEPT !.mode = "smart", !.ret = weighted_list[k]]
    /\ RotFrame

RotNext ==
    \/ \E mode \in RotModes : GetNextForced(mode)
    \/ \E mode \in RotModes : GetNextFallback(mode)
    \/ GetNextSequential
    \/ GetNextRandom
    \/ GetNextSmart

SpecRotate == RotInit /\ [][RotNext]_vars

(* ------------- .github/scripts/moveonjoy_updater.py -------------------- *)
START == 2
END == START + UpdSpan

\* the numbers fl<n> a playlist can name as its current subdomain
UpdNumbers == 0..(END + UpdBeyond)

\* range(current_number - 1, START - 1, -1) as a sequence
LowerRange(current_number) ==
    [k \in 1..Max({0, current_number - START}) |-> current_number - k]

\* range(current_number + 1, END + 1) as a sequence
HigherRange(current_number) ==
    [k \in 1..Max({0, END - current_number}) |-> current_number + k]

UpdInit ==
    /\ health = {}
    /\ cache = EmptyCache
    /\ SearchIdle
    /\ GateIdle
    /\ RunIdle
    /\ file = <<>> /\ lastUpdate = NoFile /\ clock = 0 /\ pushes = <<>>
    /\ upd \in [current : UpdNumbers \cup {NoSub},
                online : SUBSET UpdNumbers,
                stage : {"enter"}, todo : {<<>>}, ret : {NoSub},
                checked : {<<>>}]
    /\ probe = Unused /\ threads = Unused /\ flight = Unused /\ rot = Unused
    /\ pc = "u_call"

UpdFrame ==
    UNCHANGED <<health, cache, searchVars, gateVars, diskVars, runVars,
                histVars, probe, threads, flight, rot>>

\* if not current: return None
UpdNoCurrent ==
    /\ pc = "u_call"
    /\ upd.stage = "enter"
    /\ upd.current = NoSub
    /\ upd' = [upd EXCEPT !.stage = "done", !.ret = NoSub]
    /\ pc' = "u_done"
    /\ UpdFrame

\* if check_domain(current): return None; else start the lower loop
UpdCheckCurrent ==
    /\ pc = "u_call"
    /\ upd.stage = "enter"
    /\ upd.current # NoSub
    /\ IF upd.current \in upd.online
       THEN /\ upd' = [upd EXCEPT !.stage = "done", !.ret = NoSub,
                                  !.checked = Append(@, upd.current)]
            /\ pc' = "u_done"
       ELSE /\ upd' = [upd EXCEPT !.stage = "lower",
                                  !.todo = LowerRange(upd.current),
                                  !.checked = Append(@, upd.current)]
            /\ pc' = pc
    /\ UpdFrame

\* one iteration of a loop: return sub if check_domain(sub)
UpdLoopStep ==
    /\ pc = "u_call"
    /\ upd.stage \in {"lower", "higher"}
    /\ upd.todo # <<>>
    /\ LET i == Head(upd.todo)
       IN IF i \in upd.online
          THEN /\ upd' = [upd EXCEPT !.stage = "done", !.ret = i, !.todo = <<>>,
                                     !.checked = Append(@, i)]
               /\ pc' = "u_done"
          ELSE /\ upd' = [upd EXCEPT !.todo = Tail(@),
                                     !.checked = Append(@, i)]
               /\ pc' = pc
    /\ UpdFrame

\* the lower loop ended without a return: the higher loop
UpdLowerDone ==
    /\ pc = "u_call"
    /\ upd.stage = "lower"
    /\ upd.todo = <<>>
    /\ upd' = [upd EXCEPT !.stage = "higher", !.todo = HigherRange(upd.current)]
    /\ pc' = pc
    /\ UpdFrame

\* the higher loop ended without a return: return None
UpdHigherDone ==
    /\ pc = "u_call"
    /\ upd.stage = "higher"
    /\ upd.todo = <<>>
    /\ upd' = [upd EXCEPT !.stage = "done", !.ret = NoSub]
    /\ pc' = "u_done"
    /\ UpdFrame

UpdNext ==
    \/ UpdNoCurrent
    \/ UpdCheckCurrent
    \/ UpdLoopStep
    \/ UpdLowerDone
    \/ UpdHigherDone

SpecUpdater == UpdInit /\ [][UpdNext]_vars

(* --------------------------------- main -------------------------------- *)
\* the text of `file` when find_playlist finds no us.m3u anywhere
NoPlaylist == <<Tok("absent", 0, "")>>

\* p = find_playlist(): a candidate exists, or the recursive search finds one
PlaylistFound(f) == f # NoPlaylist

\* if not current_main
NoHomeIgnored(main) == FALSE

NoHome(main) == main = NoSub

\* p = find_playlist(), sys.exit(1) without one;
\* lines, old_text = read_playlist_lines(p); current_main = extract...(lines);
\* sys.exit(1) when no line holds a MoveOnJoy URL
MainLoad ==
    /\ pc = "start"
    /\ IF ~PlaylistFound(file)
       THEN /\ pc' = "exit1"
            /\ UNCHANGED <<lines, old_text, current_main>>
       ELSE /\ lines' = read_playlist_lines(file).lines
            /\ old_text' = read_playlist_lines(file).txt
            /\ current_main' = extract_current_subdomain_from_lines(lines')
            /\ pc' = IF NoHome(current_main') THEN "exit1" ELSE "m_sample"
    /\ UNCHANGED <<health, cache, searchVars, gateVars, diskVars, new_lines,
                   changed, pending, fallback, histVars, auxVars>>

\* main_alive = subdomain_alive_any_fast(lines, current_main, SAMPLE_LIMIT)
MainSample ==
    /\ pc = "m_sample"
    /\ LET r == subdomain_alive_any_fast(cache, lines, current_main,
                                         SAMPLE_LIMIT)
       IN /\ cache' = r.cache
          /\ pc' = IF r.alive THEN "r_call" ELSE "m_dead"
    /\ UNCHANGED <<health, searchVars, gateVars, diskVars, runVars, histVars,
                   auxVars>>

\* the clock readings of a run's gate call
RunTimes == {0, COOLDOWN_SECONDS}

\* git_commit_and_push_if_changed(p, old_text, <the pass's lines>)
MainGate ==
    \E now \in RunTimes, git \in GitOutcomes :
        GateCall(old_text, new_lines, COOLDOWN_SECONDS, now, git)

\* if restored_changed: commit and return; else go on to the failover pass
MainAfterRestore ==
    /\ pc = "r_ret"
    /\ IF changed
       THEN /\ MainGate
            /\ pc' = "done"
       ELSE /\ pc' = "f_call"
            /\ UNCHANGED <<gateVars, diskVars>>
    /\ UNCHANGED <<health, cache, searchVars, runVars, histVars, auxVars>>

\* if repaired_changed: commit; return (home alive, or no fallback main)
MainAfterFailover ==
    /\ pc = "f_ret"
    /\ IF changed
       THEN MainGate
       ELSE UNCHANGED <<gateVars, diskVars>>
    /\ pc' = "done"
    /\ UNCHANGED <<health, cache, searchVars, runVars, histVars, auxVars>>

\* fallback = find_any_fallback_main_fast(lines, exclude_sub=current_main);
\* without one, the per-channel failover is the last resort
MainFindFallback ==
    /\ pc = "m_dead"
    /\ LET r == find_any_fallback_main_fast(cache, lines, current_main)
       IN /\ cache' = r.cache
          /\ fallback' = r.ret
          /\ pc' = IF r.ret = NoSub THEN "f_call" ELSE "b_call"
    /\ UNCHANGED <<health, searchVars, gateVars, diskVars, lines, old_text,
                   current_main, new_lines, changed, pending, histVars,
                   auxVars>>

\* every MoveOnJoy line, the special ones included
BulkTargetsAll(ls) == AllFlLines(ls)

\* the lines the bulk migration probes: every MoveOnJoy line but the special

BulkTargets(ls) ==
    {i \in AllFlLines(ls) : PathOf(ls[i]) \notin SPECIAL_CHANNEL_PATHS}

\* new_lines = list(lines); one future per non-special MoveOnJoy line
BulkSubmit ==
    /\ pc = "b_call"
    /\ new_lines' = lines
    /\ changed' = FALSE
    /\ pending' = BulkTargets(lines)
    /\ pc' = "b_wait"
    /\ UNCHANGED <<health, cache, searchVars, gateVars, diskVars, lines,
                   old_text, current_main, fallback, histVars, auxVars>>

\* for fut in as_completed(fut_map): switch the line if the fallback serves it
BulkCollect(idx) ==
    /\ pc = "b_wait"
    /\ idx \in pending
    /\ LET path == PathOf(lines[idx])
           ok == Check(cache, <<fallback, path>>)
       IN /\ cache' = CacheAfter(cache, {<<fallback, path>>})
          /\ IF ok
             THEN /\ new_lines' = [new_lines EXCEPT ![idx] =
                                       Switch(@, fallback, path)]
                  /\ changed' = TRUE
             ELSE UNCHANGED <<new_lines, changed>>
    /\ pending' = pending \ {idx}
    /\ UNCHANGED <<health, pc, searchVars, gateVars, diskVars, lines,
                   old_text, current_main, fallback, histVars, auxVars>>

\* if changed: commit; the run ends
BulkDone ==
    /\ pc = "b_wait"
    /\ pending = {}
    /\ IF changed
       THEN MainGate
       ELSE UNCHANGED <<gateVars, diskVars>>
    /\ pc' = "done"
    /\ UNCHANGED <<health, cache, searchVars, runVars, histVars, auxVars>>

\* the lines still away from the home they were failed over from
StillMoved(txt, mv) ==
    LET ls == SplitLines(txt)
        keep == {i \in DOMAIN mv : SubOf(ls[i]) # mv[i]}
    IN [i \in keep |-> mv[i]]

\* the scheduler starts the next run: a new process (empty cache, nothing
\* loaded), and the mirrors may serve other paths than before; mv is the
\* record of earlier failovers that is carried over
StartRun(mv) ==
    /\ pc \in {"done", "exit1"}
    /\ pc' = "start"
    /\ health' \in SUBSET AllUrls
    /\ cache' = EmptyCache
    /\ lines' = <<>> /\ old_text' = <<>> /\ current_main' = NoSub
    /\ new_lines' = <<>> /\ changed' = FALSE /\ pending' = {}
    /\ fallback' = NoSub
    /\ GateReset
    /\ moved' = mv
    /\ clock' = 0
    /\ UNCHANGED <<searchVars, file, lastUpdate, pushes, round, auxVars>>

\* the next run, keeping no record of the runs before it
NextRun == StartRun([i \in {} |-> 0])

\* the next run, keeping the record of the lines failed over and not yet back
NextRunKeep == StartRun(StillMoved(file, moved))

RunLineSet == {<<Txt>>} \cup {<<Url(n, p)>> : n \in Mirrors, p \in Paths}

RunTexts ==
    {JoinLines(ls) : ls \in [1..RunLines -> RunLineSet]}
        \cup {JoinLines(ls) \o <<NL>> : ls \in [1..RunLines -> RunLineSet]}

Init ==
    /\ health \in SUBSET AllUrls
    /\ cache = EmptyCache
    /\ SearchIdle
    /\ GateIdle
    /\ AuxIdle
    /\ RunIdle
    /\ file \in RunTexts
    /\ lastUpdate = NoFile
    /\ clock = 0
    /\ pushes = <<>>
    /\ pc = "start"

Next ==
    \/ MainLoad
    \/ MainSample
    \/ RestoreSubmit
    \/ \E idx \in DOMAIN lines : RestoreCollect(idx)
    \/ RestoreReturn
    \/ MainAfterRestore
    \/ FailoverCheck
    \/ \E idx \in DOMAIN lines : FailoverCollect(idx)
    \/ FailoverReturn
    \/ MainAfterFailover
    \/ MainFindFallback
    \/ BulkSubmit
    \/ \E idx \in DOMAIN lines : BulkCollect(idx)
    \/ BulkDone
    \/ NextRun

Spec == Init /\ [][Next]_vars

(* One run from the start, the playlist possibly missing.                 *)
LoadTexts ==
    {NoPlaylist}
        \cup {JoinLines(ls) \o <<NL>> : ls \in [1..MaxLines -> RunLineSet]}

LoadInit ==
    /\ health \in SUBSET AllUrls
    /\ cache = EmptyCache
    /\ SearchIdle
    /\ GateIdle
    /\ AuxIdle
    /\ RunIdle
    /\ file \in LoadTexts
    /\ lastUpdate = NoFile
    /\ clock = 0
    /\ pushes = <<>>
    /\ pc = "start"

LoadNext ==
    \/ MainLoad
    \/ MainSample
    \/ RestoreSubmit
    \/ \E idx \in DOMAIN lines : RestoreCollect(idx)
    \/ RestoreReturn
    \/ MainAfterRestore
    \/ FailoverCheck
    \/ \E idx \in DOMAIN lines : FailoverCollect(idx)
    \/ FailoverReturn
    \/ MainAfterFailover
    \/ MainFindFallback
    \/ BulkSubmit
    \/ \E idx \in DOMAIN lines : BulkCollect(idx)
    \/ BulkDone

SpecLoad == LoadInit /\ [][LoadNext]_vars

(* A search step by step, or one run, under the scheduling the code has:   *)
(* every pool is joined, every request carries a timeout, so a step that   *)
(* can be taken is taken.                                                  *)
\* the most attempts a request of a probe of the search took so far
TriesSoFar == IF probe = Unused THEN 0 ELSE probe.tries

\* one thread's probe completes; its request ran the loop of do_head / do_get
\* against a server answering the attempts with outs
SearchProbeAttempts(n) ==
    /\ SearchProbeEffect(n)
    /\ \E outs \in [1..RETRIES -> AttemptOutcomes] :
          probe' = [stage |-> "search",
                    tries |-> Max({TriesSoFar, do_request(outs, 1).tries})]
    /\ UNCHANGED <<threads, flight, rot, upd>>

\* the playlists of the runs followed to their end: two lines, or none
TermTexts ==
    {NoPlaylist}
        \cup {JoinLines(<<a, b>>) \o <<NL>> : a \in RunLineSet, b \in RunLineSet}

TermRunInit ==
    /\ health \in SUBSET AllUrls
    /\ cache = EmptyCache
    /\ SearchIdle
    /\ GateIdle
    /\ AuxIdle
    /\ RunIdle
    /\ file \in TermTexts
    /\ lastUpdate = NoFile
    /\ clock = 0
    /\ pushes = <<>>
    /\ pc = "start"

TermInit == SearchInit \/ TermRunInit

TermNext ==
    \/ SearchSubmit
    \/ \E n \in Mirrors : SearchProbeAttempts(n)
    \/ SearchCollect
    \/ SearchExhausted
    \/ LoadNext

SpecTerm == TermInit /\ [][TermNext]_vars /\ WF_vars(TermNext)

(* Runs in sequence with the record of failovers kept across them. *)
HistoryTexts ==
    {JoinLines(ls) \o <<NL>> : ls \in [1..MaxLines -> RunLineSet]}

HistoryInit ==
    /\ health \in SUBSET AllUrls
    /\ cache = EmptyCache
    /\ SearchIdle
    /\ GateIdle
    /\ AuxIdle
    /\ RunIdle
    /\ file \in HistoryTexts
    /\ lastUpdate = NoFile
    /\ clock = 0
    /\ pushes = <<>>
    /\ pc = "start"

HistoryNext ==
    \/ MainLoad
    \/ MainSample
    \/ RestoreSubmit
    \/ \E idx \in DOMAIN lines : RestoreCollect(idx)
    \/ RestoreReturn
    \/ MainAfterRestore
    \/ FailoverCheck
    \/ \E idx \in DOMAIN lines : FailoverCollect(idx)
    \/ FailoverReturn
    \/ MainAfterFailover
    \/ MainFindFallback
    \/ BulkSubmit
    \/ \E idx \in DOMAIN lines : BulkCollect(idx)
    \/ BulkDone
    \/ NextRunKeep

SpecHistory == HistoryInit /\ [][HistoryNext]_vars

(* ------------------------------ claims --------------------------------- *)
\* the mirrors of the range, other than the excluded one, that serve the path
PlayableFor(path, excl) ==
    {n \in Mirrors : n # excl /\ <<n, path>> \in health}

\* C1: find_fallback_for_path_parallel returns the highest-numbered mirror of
\* [SUB_MIN, SUB_MAX] other than the excluded one whose probe of the path is
\* Playable, and None exactly when there is none, whatever the order in which
\* the probes of a batch complete; the one-step form of the call used by the
\* passes returns the same.
C1_HighestPlayable ==
    pc = "s_done" =>
        /\ s_ret = (IF PlayableFor(s_path, s_excl) = {} THEN NoSub
                    ELSE Max(PlayableFor(s_path, s_excl)))
        /\ s_ret = find_fallback_for_path_parallel(EmptyCache, s_path, s_excl).ret

\* C1 witness: a search returned a mirror although the excluded mirror, of
\* higher number, and a mirror of lower number both serve the path.
C1_Witness ==
    /\ pc = "s_done"
    /\ s_ret # NoSub
    /\ s_excl \in PlayableFor(s_path, NoSub) /\ s_excl > s_ret
    /\ \E n \in PlayableFor(s_path, NoSub) : n < s_ret

\* C2: after the restore pass with home mirror H, every resource line that
\* was on another mirror and whose path H serves references H, with its path
\* kept.
C2_RestoreCorrect ==
    pc = "r_ret" =>
        \A i \in AllFlLines(lines) :
            (SubOf(lines[i]) # current_main
                /\ <<current_main, PathOf(lines[i])>> \in health)
            => (/\ HasUrl(new_lines[i])
                /\ UrlOf(new_lines[i]) = <<current_main, PathOf(lines[i])>>)

\* C2 witness: the pass probed the home mirror for a line that was on another
\* mirror and rewrote it to the home mirror, keeping its path.
C2_Witness ==
    /\ pc = "r_ret" /\ changed
    /\ \E i \in AllFlLines(lines) :
          /\ SubOf(lines[i]) # current_main
          /\ <<current_main, PathOf(lines[i])>> \in DOMAIN cache
          /\ UrlOf(new_lines[i]) = <<current_main, PathOf(lines[i])>>

\* a resource on the home mirror whose probe there fails
Failing(i) ==
    /\ i \in LinesUsing(lines, current_main)
    /\ <<current_main, PathOf(lines[i])>> \notin health

\* no mirror of the range serves the resource's path
NoCandidate(i) == \A n \in Mirrors : <<n, PathOf(lines[i])>> \notin health

\* C3: the failover pass leaves every resource of the failing mirror that no
\* mirror of [SUB_MIN, SUB_MAX] serves as it was, and returns changed = false
\* with every line as it was when that holds of every failing resource.
C3_DegradedStable ==
    pc = "f_ret" =>
        /\ \A i \in LinesUsing(lines, current_main) :
              NoCandidate(i) => new_lines[i] = lines[i]
        /\ (\A i \in DOMAIN lines : Failing(i) => NoCandidate(i))
              => (changed = FALSE /\ new_lines = lines)

\* C3 witness: a pass that searched the whole range for a failing resource,
\* found nothing, and returned changed = false.
C3_Witness ==
    /\ pc = "f_ret" /\ changed = FALSE
    /\ \E i \in DOMAIN lines :
          /\ Failing(i) /\ NoCandidate(i)
          /\ \A n \in Mirrors : <<n, PathOf(lines[i])>> \in DOMAIN cache
          /\ new_lines[i] = lines[i]

\* a pass has copied the loaded lines and may have rewritten some
Rewriting == lines # <<>> /\ Len(new_lines) = Len(lines)

\* C4 as claimed: in any run, a resource whose probe at its current mirror is
\* Playable is never re-pointed to a mirror other than its home mirror.
C4_HealthyNotRepointed ==
    Rewriting =>
        \A i \in AllFlLines(lines) :
            (UrlOf(lines[i]) \in health /\ SubOf(new_lines[i]) # SubOf(lines[i]))
            => SubOf(new_lines[i]) = current_main

\* the run restored line i to the home mirror
Restored(i) ==
    SubOf(lines[i]) # current_main /\ SubOf(new_lines[i]) = current_main

\* C5 as claimed: a run in which some resource is restored to home has, at its
\* end, also failed over every resource on home whose probe is Unreachable
\* and that another mirror of the range serves.
C5_RestoreRunStillFailsOver ==
    (pc = "done" /\ \E i \in AllFlLines(lines) : Restored(i)) =>
        \A j \in AllFlLines(lines) :
            (/\ SubOf(lines[j]) = current_main
             /\ <<current_main, PathOf(lines[j])>> \notin health
             /\ PlayableFor(PathOf(lines[j]), current_main) # {})
            => SubOf(new_lines[j]) \in PlayableFor(PathOf(lines[j]), current_main)

\* C6 as claimed: a resource failed over from its home mirror H in an earlier
\* run is on H again at the end of a run in which H serves its path.
C6_RestoredWhenHomeRecovers ==
    pc = "done" =>
        \A i \in DOMAIN moved :
            <<moved[i], PathOf(SplitLines(file)[i])>> \in health
            => SubOf(SplitLines(file)[i]) = moved[i]

\* C7 as claimed: the failover pass applied to the output of a failover pass,
\* with the same probe results and the home mirror kept or detected again,
\* returns changed = false and the lines it was given.
C7_FailoverIdempotent ==
    (pc = "f_ret" /\ round = 2) => (changed = FALSE /\ new_lines = lines)

\* the text handed to the gate differs from the text that was loaded
TextChanged == JoinLines(g_new) # g_old

\* C8 as claimed: when the lines handed to the gate are the lines loaded from
\* the catalog, the gate returns false, writes no file and runs no git
\* command, whether or not the catalog text ends with a newline.
C8_NoChangeNoPublish ==
    (pc = "g_done" /\ g_new = SplitLines(g_old)) =>
        (g_ret = FALSE /\ ~g_wrote /\ g_cmds = {})

\* C9: when the text changed and the cooldown (> 0) is still active, the gate
\* step writes the new catalog to the file, runs no git command and leaves
\* LAST_UPDATE_FILE as it was.
C9_CooldownWritesOnly ==
    [][(/\ pc = "g_idle" /\ pc' = "g_done"
        /\ JoinLines(g_new') # g_old'
        /\ g_cd' > 0
        /\ clock - ReadLast(lastUpdate) < g_cd')
       => (/\ g_wrote'
           /\ file' \in {JoinLines(g_new'), JoinLines(g_new') \o <<NL>>}
           /\ EndsWithNL(file')
           /\ g_cmds' = {}
           /\ lastUpdate' = lastUpdate)]_vars

\* C9 witness: a call with changed text inside the cooldown of a stored
\* timestamp has written the file and run no git command.
C9_Witness ==
    /\ pc = "g_done" /\ TextChanged /\ g_cd > 0
    /\ lastUpdate \in Times /\ lastUpdate > 0
    /\ g_now - lastUpdate < g_cd /\ g_now > lastUpdate
    /\ g_wrote /\ file # g_old /\ g_cmds = {}

C11_TrueOnlyOnPublish ==
    (pc = "g_done" /\ g_ret = TRUE) =>
        (/\ "push" \in g_cmds /\ g_git = "ok"
         /\ lastUpdate = g_now)

\* C12 as claimed: the time stored in LAST_UPDATE_FILE, as the gate reads it,
\* never decreases over a gate call, for every cooldown setting (0 included)
\* and every sequence of clock readings.
C12_TimestampMonotone ==
    (pc = "g_done" /\ TextChanged) => ReadLast(lastUpdate) >= g_last

\* C13: with a cooldown > 0 and LAST_UPDATE_FILE kept between the calls, a
\* successful push is at least the cooldown later than the successful push
\* before it.
C13_PushesCooldownApart ==
    (pc = "g_done" /\ g_git = "ok" /\ g_cd > 0 /\ Len(pushes) = 2) =>
        pushes[2] - pushes[1] >= g_cd

\* C13 witness: a second successful push, exactly one cooldown after the
\* first, whose time the call read from LAST_UPDATE_FILE.
C13_Witness ==
    /\ pc = "g_done" /\ g_git = "ok" /\ g_cd > 0 /\ "push" \in g_cmds
    /\ Len(pushes) = 2
    /\ pushes[2] = g_now /\ pushes[1] = g_last
    /\ pushes[2] - pushes[1] = g_cd

\* C14 as claimed: no pass writes a mirror id outside [SUB_MIN, SUB_MAX] into
\* a line: every line a pass has rewritten carries a mirror id of the range.
C14_WrittenIdsInRange ==
    (pc \in {"r_wait", "r_ret", "f_wait", "f_ret"}) =>
        \A i \in AllFlLines(new_lines) :
            new_lines[i] # lines[i] => SubOf(new_lines[i]) \in Mirrors

\* C15 as claimed: every change of a resource's mirror id in a run is a
\* failover change (from the home mirror, where its probe failed, to another
\* mirror) or a restore change (from another mirror to the home mirror).
C15_OnlyFailoverOrRestore ==
    Rewriting =>
        \A i \in AllFlLines(lines) :
            SubOf(new_lines[i]) # SubOf(lines[i]) =>
                \/ /\ SubOf(lines[i]) = current_main
                   /\ UrlOf(lines[i]) \notin health
                   /\ SubOf(new_lines[i]) # current_main
                \/ /\ SubOf(lines[i]) # current_main
                   /\ SubOf(new_lines[i]) = current_main

\* C16 as claimed: after a pass the catalog has the loaded number and order
\* of lines, every line without a mirror URL is as loaded, and a resource
\* line differs from the loaded one at most in the mirror id of its first
\* URL: its path and every further token of the line are as loaded.
C16_OnlyMirrorTokenChanges ==
    (pc \in {"r_ret", "f_ret"}) =>
        /\ Len(new_lines) = Len(lines)
        /\ \A i \in DOMAIN lines :
              IF ~HasUrl(lines[i]) THEN new_lines[i] = lines[i]
              ELSE /\ Len(new_lines[i]) = Len(lines[i])
                   /\ \A k \in DOMAIN lines[i] :
                         IF k = Min(UrlIdx(lines[i]))
                         THEN /\ new_lines[i][k].k = "url"
                              /\ new_lines[i][k].path = lines[i][k].path
                         ELSE new_lines[i][k] = lines[i][k]

\* C17 as claimed: reading a catalog and serializing the unchanged lines, by
\* write_playlist_lines or by the join of git_commit_and_push_if_changed,
\* gives back the text that was read, with and without a final newline.
C17_RoundTrip ==
    pc = "t_written" => (file = old_text \/ JoinLines(lines) = old_text)

\* C18 as claimed (its last clause; each control path of main reaches the
\* gate at most once): a run that changes no resource line writes nothing to
\* the catalog file.
C18_NoChangeNoWrite ==
    (pc = "done" /\ new_lines = lines) => (~g_wrote /\ file = old_text)

\* C19: when git add, the commit or the push of a call fails, the call still
\* returns (with True) and the catalog file holds the new content.
C19_GitFailureKeepsFile ==
    (pc = "g_done" /\ g_git \in {"add_fails", "nothing_to_commit", "push_fails"})
        => (/\ g_ret = TRUE
            /\ g_wrote
            /\ file = WrittenText(JoinLines(g_new)))

\* C19 witness: a call whose push failed has returned, and the file holds the
\* new text, other than the text that was loaded.
C19_Witness ==
    /\ pc = "g_done" /\ g_git = "push_fails" /\ "push" \in g_cmds
    /\ g_new # <<>> /\ file # g_old
    /\ file = WrittenText(JoinLines(g_new))

\* C20: when no catalog file is found, or the catalog holds no mirror URL to
\* take the home mirror from, the run exits with status 1 and has issued no
\* probe, written no file and run no git command.
C20_AbortBeforeProbe ==
    (/\ pc # "start"
     /\ \/ ~PlaylistFound(file)
        \/ extract_current_subdomain_from_lines(SplitLines(file)) = NoSub)
    => (/\ pc = "exit1"
        /\ cache = EmptyCache
        /\ new_lines = <<>>
        /\ ~g_wrote /\ g_cmds = {} /\ pushes = <<>>)

\* C20 witness: a run that found no catalog file has exited with status 1
\* with nothing read and nothing probed.
C20_Witness ==
    /\ pc = "exit1" /\ ~PlaylistFound(file)
    /\ lines = <<>> /\ cache = EmptyCache /\ ~g_wrote

\* C21 as claimed: a probe whose last request met a network error or a
\* non-success status returns False, and that request was attempted RETRIES
\* times before the probe concluded Unreachable; a body without a segment
\* line gives False as well.
C21_FailuresRetriedThenFalse ==
    pc = "p_done" =>
        /\ (probe.last \in {"none", "bad"} =>
               (probe.result = FALSE /\ probe.tries = RETRIES))
        /\ (probe.req = "get" => probe.result = FALSE)

\* C22 as claimed: within one run all calls of fast_check_url_m3u for one URL
\* return the same result and no cache entry is overwritten with another
\* value, under every interleaving and although the mirror's health changes.
C22_CacheConsistent ==
    pc = "c_run" =>
        /\ \A t, u \in 1..CacheThreads :
              (threads.st[t] = "done" /\ threads.st[u] = "done")
                  => threads.res[t] = threads.res[u]
        /\ ~threads.overwrote

\* C23: in the failover pass every failing resource that another mirror of
\* the range serves is re-pointed to the highest such mirror, however many
\* other resources stay Degraded and in whatever order the searches complete;
\* a Degraded resource's line and every line that is not failing stay as
\* they were.
C23_FailureIsolation ==
    pc = "f_ret" =>
        \A i \in DOMAIN lines :
            IF Failing(i) /\ ~NoCandidate(i)
            THEN /\ PlayableFor(PathOf(lines[i]), current_main) # {}
                 /\ new_lines[i] =
                        Switch(lines[i],
                               Max(PlayableFor(PathOf(lines[i]), current_main)),
                               PathOf(lines[i]))
            ELSE new_lines[i] = lines[i]

\* C23 witness: of two failing resources one stayed Degraded and the other,
\* listed after it, was re-pointed to a mirror that serves it.
C23_Witness ==
    /\ pc = "f_ret"
    /\ \E i, j \in DOMAIN lines :
          /\ i < j
          /\ Failing(i) /\ NoCandidate(i) /\ new_lines[i] = lines[i]
          /\ Failing(j) /\ ~NoCandidate(j)
          /\ UrlOf(new_lines[j]) \in health

\* the probes in flight in the searches 1..n
RECURSIVE InFlight(_)
InFlight(n) == IF n = 0 THEN 0 ELSE flight[n].inflight + InFlight(n - 1)

\* C24 as claimed: at every moment of the failover pass the number of probes
\* in flight is at most THREAD_WORKERS.
C24_InFlightBounded ==
    pc = "fl_run" => InFlight(MaxFix) <= THREAD_WORKERS

\* the URLs a line references
UrlsIn(line) == {<<line[k].sub, line[k].path>> : k \in UrlIdx(line)}

\* C25: every line rewritten during a run, by the failover pass, the restore
\* pass or the bulk migration, references only a URL whose probe returned
\* Playable earlier in the run (the cache is empty when the run starts).
C25_RewrittenToProbedPlayable ==
    Rewriting =>
        \A i \in DOMAIN lines :
            new_lines[i] # lines[i] =>
                \A u \in UrlsIn(new_lines[i]) : u \in DOMAIN cache /\ cache[u]

\* the bulk migration moved a line from the dead home to the fallback main,
\* which serves its path
C25_Witness ==
    /\ pc = "b_wait"
    /\ pending = {}
    /\ \E i \in DOMAIN lines :
          /\ new_lines[i] # lines[i]
          /\ SubOf(lines[i]) = current_main
          /\ SubOf(new_lines[i]) = fallback
          /\ UrlOf(new_lines[i]) \in health

\* the bulk migration is running or has run
InBulk == pc = "b_wait" \/ (pc = "done" /\ fallback # NoSub /\ Rewriting)

\* C26: a line whose path is in SPECIAL_CHANNEL_PATHS keeps its mirror (the
\* whole line is kept) throughout the bulk migration to the fallback main,
\* whatever the fallback mirror answers.
C26_SpecialKeptInBulk ==
    InBulk =>
        \A i \in AllFlLines(lines) :
            PathOf(lines[i]) \in SPECIAL_CHANNEL_PATHS =>
                new_lines[i] = lines[i]

\* the migration changed the playlist while a special line stayed on the
\* dead home although the fallback main serves its path
C26_Witness ==
    /\ pc = "b_wait"
    /\ pending = {}
    /\ changed
    /\ \E i \in AllFlLines(lines) :
          /\ PathOf(lines[i]) \in SPECIAL_CHANNEL_PATHS
          /\ SubOf(lines[i]) = current_main
          /\ <<fallback, PathOf(lines[i])>> \in health
          /\ new_lines[i] = lines[i]

\* the batch of the search a candidate belongs to, counted from 0
BatchOf(n) ==
    LET subs == SearchSubs(s_excl)
        pos == CHOOSE j \in DOMAIN subs : subs[j] = n
    IN (pos - 1) \div batch_size

\* what a search has probed so far is within its budget
SearchWithinBudget ==
    \A n \in DOMAIN s_probed :
        /\ s_probed[n] = 1
        /\ n \in Mirrors
        /\ n # s_excl
        /\ \A m \in Range(SearchSubs(s_excl)) :
               BatchOf(m) < BatchOf(n) => <<m, s_path>> \notin health

\* a search has returned, or the run has ended
Terminated == pc \in {"s_done", "done", "exit1"}

\* C27: every search and every run terminates; a search probes each
\* candidate of [SUB_MIN, SUB_MAX] at most once, never the excluded mirror
\* or an id outside the range, no batch of lower priority after a batch
\* holding a Playable candidate, and a request of a probe takes at most
\* RETRIES attempts.
C27_SearchTerminatesWithinBudget ==
    /\ [](SearchWithinBudget /\ TriesSoFar <= RETRIES)
    /\ <>Terminated

\* a search went through a first batch without a Playable candidate, one of
\* its requests using every attempt, and ended in a later batch
C27_Witness ==
    /\ pc = "s_done"
    /\ s_i > 0
    /\ s_ret # NoSub
    /\ TriesSoFar = RETRIES

\* C28: _get_next_subdomain always returns a member of online_subdomains,
\* and returns fl1 on every call when force_fl1 is set or no subdomain other
\* than fl1 is online, in every rotation mode.
C28_RotatorFallback ==
    (pc = "rot_ready" /\ rot.ret # "none") =>
        /\ rot.ret \in Range(rot.online_subdomains)
        /\ (rot.force_fl1 \/ Range(rot.online_subdomains) \subseteq {"fl1"})
               => rot.ret = "fl1"

\* a forced rotator answered fl1 on each of MaxCalls calls, the last of them
\* in sequential mode
C28_Witness ==
    /\ pc = "rot_ready"
    /\ rot.force_fl1
    /\ rot.mode = "sequential"
    /\ rot.ret = "fl1"
    /\ rot.forced_fl1_count = MaxCalls

\* the subdomains of the list other than fl1, in list order
NonFl1(online) == LET Other(sd) == sd # "fl1" IN SelectSeq(online, Other)

\* C29: with fl1 and at least one other subdomain online, successive
\* sequential calls never return fl1, return the other subdomains round-robin
\* in list order, and keep 0 <= rotation_index < len(online_subdomains).
C29_SequentialRoundRobin ==
    (pc = "rot_ready" /\ rot.seq # <<>>) =>
        LET others == NonFl1(rot.online_subdomains)
        IN /\ \A j \in DOMAIN rot.seq :
                 /\ rot.seq[j] # "fl1"
                 /\ rot.seq[j] = others[((j - 1) % Len(others)) + 1]
           /\ rot.rotation_index >= 0
           /\ rot.rotation_index < Len(rot.online_subdomains)

\* more than one full cycle over a list with fl1 between two other subdomains
C29_Witness ==
    /\ pc = "rot_ready"
    /\ rot.online_subdomains = <<"fl2", "fl1", "fl3">>
    /\ rot.seq = <<"fl2", "fl3", "fl2", "fl3">>

\* the working subdomains of fl<START>..fl<END> below and above a number
WorkingBelow(n) == {i \in START..END : i < n /\ i \in upd.online}
WorkingAbove(n) == {i \in START..END : i > n /\ i \in upd.online}

\* C30 as claimed: find_next_working_subdomain returns no change when the
\* current subdomain is online; otherwise the nearest working subdomain below
\* the current number, and when there is none the nearest working one above
\* it; what it returns lies within fl<START>..fl<END> and differs from the
\* current one, for every current number, those outside [START, END] included.
C30_NearestWorkingInRange ==
    (pc = "u_done" /\ upd.current # NoSub) =>
        /\ upd.current \in upd.online => upd.ret = NoSub
        /\ upd.current \notin upd.online =>
              upd.ret = (IF WorkingBelow(upd.current) # {}
                         THEN Max(WorkingBelow(upd.current))
                         ELSE IF WorkingAbove(upd.current) # {}
                         THEN Min(WorkingAbove(upd.current))
                         ELSE NoSub)
        /\ upd.ret # NoSub => (upd.ret \in START..END /\ upd.ret # upd.current)

=============================================================================
